---- MODULE Spec2Model ----
(***************************************************************************)
(* Model of the RabbitMQ user credential updater (package updater).        *)
(*                                                                         *)
(* A Go string is modelled as a sequence of tokens: <<>> is the empty      *)
(* string, <<"pwd2", "\n">> is "pwd2\n".  A file name is the triple        *)
(* <<prefix, userID, suffix>>.  Go maps are functions whose DOMAIN is the  *)
(* set of keys present.                                                    *)
(***************************************************************************)
EXTENDS Integers, Sequences, FiniteSets, TLC

VARIABLES
    dir,              \* WatchDir: file name -> raw file content
    events,           \* Watcher.Events: queued file names
    CredentialState,  \* PasswordUpdater.CredentialState
    CredentialSpec,   \* PasswordUpdater.CredentialSpec
    client,           \* adminClient: the Username/Password it sends
    rmq,              \* the remote service: username -> user record
    adminFile,        \* default section of AdminFile: key -> value
    pc,               \* position of HandleEvents
    todo,             \* keys of the range loop of processSecrets not yet visited
    userID,           \* loop variable of the iteration executed last
    calls,            \* calls issued by the current (or last) pass, in order
    Done,             \* number of values sent on the Done channel
    writes,           \* number of files written so far by the environment
    rotations,        \* number of out-of-band remote changes so far
    closed,           \* TRUE once the Watcher was closed (both channels close)
    watchErrors,      \* Watcher.Errors: number of errors queued
    authClient,       \* credentials of the client bound to parameter authClient
    granted           \* accounts of the service that hold permissions on "/"

vars == <<dir, events, CredentialState, CredentialSpec, client, rmq, adminFile,
          pc, todo, userID, calls, Done, writes, rotations, closed, watchErrors,
          authClient, granted>>

----------------------------------------------------------------------------
(* Bounds of the model *)

MaxWrites == 2
MaxRotations == 1
MaxEvents == 2
MaxFaults == 1
MaxWatchErrors == 1

----------------------------------------------------------------------------
(* Constants of the program *)

userFilePrefix == "user_"
adminFileSection == "default"
usernameFileSuffix == "_username"
passwordFileSuffix == "_password"
tagFileSuffix == "_tag"
adminUserID == "admin"
errUnauthorized == "Error: API responded with a 401 Unauthorized"
errNotFound == "Error 404 (Object Not Found): Not Found"
errOther == "error"
Nil == "nil"
HashingAlgorithmSHA256 == "rabbit_password_hashing_sha256"
defaultUserPermissions == [Configure |-> ".*", Write |-> ".*", Read |-> ".*"]
MethodGet == "GET"
MethodPut == "PUT"

EmptyStr == <<>>
ZeroCred == [Username |-> EmptyStr, Password |-> EmptyStr, Tag |-> EmptyStr]
NoID == "none"

----------------------------------------------------------------------------
(* strings.TrimSpace *)

IsSpace(t) == t \in {" ", "\n", "\t"}

RECURSIVE TrimLeft(_)
TrimLeft(s) ==
    IF s # <<>> /\ IsSpace(Head(s)) THEN TrimLeft(Tail(s)) ELSE s

RECURSIVE TrimRight(_)
TrimRight(s) ==
    IF s # <<>> /\ IsSpace(s[Len(s)]) THEN TrimRight(SubSeq(s, 1, Len(s) - 1)) ELSE s

\* Mutant: nothing is trimmed.
TrimSpaceIdentity(s) == s

TrimSpace(s) == TrimRight(TrimLeft(s))

----------------------------------------------------------------------------
(* File names and the credential store loader *)

HasPrefix(name, p) == name[1] = p
HasSuffix(name, s) == name[3] = s

isSecretFile(name) == HasPrefix(name, userFilePrefix)

UserFile(id, suffix) == <<userFilePrefix, id, suffix>>

\* The map a Go lookup reads: the zero value for a missing key.
Lookup(m, k) == IF k \in DOMAIN m THEN m[k] ELSE ZeroCred

\* The content of a file os.ReadFile fails on.
Unreadable == <<"EACCES">>

\* The files whose content reaches the map: lines 73-98.
loadSecretsRecognized(d) ==
    {f \in DOMAIN d :
        /\ HasPrefix(f, userFilePrefix)
        /\ d[f] # Unreadable
        /\ \/ HasSuffix(f, usernameFileSuffix)
           \/ HasSuffix(f, passwordFileSuffix)
           \/ HasSuffix(f, tagFileSuffix)}

\* Mutant: the content of a file that could not be read is used.
loadSecretsFieldAnyContent(d, id, suffix) ==
    IF UserFile(id, suffix) \in DOMAIN d
    THEN TrimSpace(d[UserFile(id, suffix)])
    ELSE EmptyStr

loadSecretsField(d, id, suffix) ==
    IF UserFile(id, suffix) \in loadSecretsRecognized(d)
    THEN TrimSpace(d[UserFile(id, suffix)])
    ELSE EmptyStr

\* Mutant: only the username of the admin entry is looked at.
AdminIncompleteUsernameOnly(creds) ==
    /\ adminUserID \in DOMAIN creds
    /\ creds[adminUserID].Username = EmptyStr

AdminIncomplete(creds) ==
    /\ adminUserID \in DOMAIN creds
    /\ \/ creds[adminUserID].Username = EmptyStr
       \/ creds[adminUserID].Password = EmptyStr

loadSecrets(d) ==
    LET ids == {f[2] : f \in loadSecretsRecognized(d)}
        creds == [id \in ids |->
                    [Username |-> loadSecretsField(d, id, usernameFileSuffix),
                     Password |-> loadSecretsField(d, id, passwordFileSuffix),
                     Tag      |-> loadSecretsField(d, id, tagFileSuffix)]]
    IN  IF AdminIncomplete(creds)
        THEN [err |-> TRUE, creds |-> <<>>]
        ELSE [err |-> FALSE, creds |-> creds]

----------------------------------------------------------------------------
(* The remote service as seen through RabbitClient.  A request is          *)
(* authenticated iff the client's username and password are those of a     *)
(* user the service holds.  Each call can also fail for another reason     *)
(* (transport, 5xx): `fault`.                                              *)

AuthOK(c, r) ==
    /\ c.Username \in DOMAIN r
    /\ r[c.Username].Password = c.Password

NoSettings ==
    [Name |-> EmptyStr, Tags |-> <<>>, Password |-> EmptyStr, HashingAlgorithm |-> ""]

\* A call on the instance held in field adminClient, the only one the methods
\* of PasswordUpdater name (event_handler.go:104-222).
Call(op, acct, name, by, settings, res) ==
    [op |-> op, acct |-> acct, name |-> name, by |-> by,
     settings |-> settings, res |-> res, via |-> "adminClient"]

Logged(m, c) == [m EXCEPT !.calls = Append(@, c)]

\* Mutant: the service does not check the credentials of a request.
CallResultUnchecked(m, fault) ==
    IF fault THEN errOther ELSE Nil

CallResult(m, fault) ==
    IF fault THEN errOther
    ELSE IF ~AuthOK(m.client, m.rmq) THEN errUnauthorized
    ELSE Nil

Whoami(m, acct, fault) ==
    LET res == CallResult(m, fault)
    IN  [m   |-> Logged(m, Call("Whoami", acct, m.client.Username, m.client, NoSettings, res)),
         err |-> res]

GetUser(m, acct, username, fault) ==
    LET res == IF CallResult(m, fault) # Nil THEN CallResult(m, fault)
               ELSE IF username \notin DOMAIN m.rmq THEN errNotFound
               ELSE Nil
        info == IF res = Nil
                THEN [Name |-> username,
                      Tags |-> m.rmq[username].Tags,
                      Password |-> m.rmq[username].Password,
                      HashingAlgorithm |-> m.rmq[username].HashingAlgorithm]
                ELSE NoSettings
    IN  [m    |-> Logged(m, Call("GetUser", acct, username, m.client, info, res)),
         user |-> [found |-> res = Nil, HashingAlgorithm |-> info.HashingAlgorithm],
         err  |-> res]

PutUser(m, acct, username, settings, fault) ==
    LET res == CallResult(m, fault)
        user == [Password |-> settings.Password,
                 Tags |-> settings.Tags,
                 HashingAlgorithm |-> settings.HashingAlgorithm]
        r2 == IF res = Nil
              THEN [n \in DOMAIN m.rmq \cup {username} |->
                        IF n = username THEN user ELSE m.rmq[n]]
              ELSE m.rmq
    IN  [m   |-> Logged([m EXCEPT !.rmq = r2],
                        Call("PutUser", acct, username, m.client, settings, res)),
         err |-> res]

UpdatePermissionsIn(m, acct, vhost, username, permissions, fault) ==
    LET res == CallResult(m, fault)
        g == IF res = Nil THEN m.granted \cup {username} ELSE m.granted
    IN  [m   |-> Logged([m EXCEPT !.granted = g],
                        Call("UpdatePermissionsIn", acct, username, m.client,
                             [vhost |-> vhost, permissions |-> permissions], res)),
         err |-> res]

----------------------------------------------------------------------------
(* event_handler.go *)

\* Mutant: the result of the identity check is dropped.
authenticateSwallowsError(m, acct, fault) ==
    [m |-> Whoami(m, acct, fault).m, err |-> Nil]

authenticate(m, acct, fault) == Whoami(m, acct, fault)

\* Mutant: the fallback sets the new password on the other instance.
handleHTTPErrorOnAuthClient(m, acct, err, httpMethod, newPasswd, fault) ==
    IF err = Nil THEN [m |-> m, err |-> Nil]
    ELSE IF err = errUnauthorized
    THEN authenticate([m EXCEPT !.authClient.Password = newPasswd], acct, fault)
    ELSE [m |-> m, err |-> err]

handleHTTPError(m, acct, err, httpMethod, newPasswd, fault) ==
    IF err = Nil THEN [m |-> m, err |-> Nil]
    ELSE IF err = errUnauthorized
    THEN authenticate([m EXCEPT !.client.Password = newPasswd], acct, fault)
    ELSE IF err = errNotFound /\ httpMethod = MethodGet
    THEN [m |-> m, err |-> err]
    ELSE [m |-> m, err |-> err]

\* The other replicas act while an iteration runs ("only one node in a multi
\* node RabbitMQ cluster will update the password"): with `race`, another
\* replica sets the new admin password on the service between the GetUser and
\* the PutUser of updateInRabbitMQ.
Arrived(m, newPasswd, race) ==
    IF /\ race
       /\ m.rotations < MaxRotations
       /\ m.client.Username \in DOMAIN m.rmq
       /\ m.rmq[m.client.Username].Password # newPasswd
    THEN [m EXCEPT !.rmq[m.client.Username].Password = newPasswd,
                   !.rotations = @ + 1]
    ELSE m

UserSettings(cred, hashingAlgorithm) ==
    [Name |-> cred.Username,
     Tags |-> <<cred.Tag>>,
     Password |-> cred.Password,
     HashingAlgorithm |-> hashingAlgorithm]

\* Mutant: the default algorithm whatever was fetched.
hashingAlgorithmAlwaysDefault(user) == HashingAlgorithmSHA256

\* Lines 204-207: the algorithm of the account fetched, else the default.
hashingAlgorithmOf(user) ==
    IF user.found THEN user.HashingAlgorithm ELSE HashingAlgorithmSHA256

\* Mutant: every account is taken for a new one.
isNewUserAlways(errHTTP) == TRUE

\* Lines 189, 196-198: the account is new when GetUser ended in 404.
isNewUserOf(errHTTP) == errHTTP = errNotFound

updateInRabbitMQ(m, acct, cred, spec, faults) ==
    LET newPasswd == Lookup(spec, adminUserID).Password
        g == GetUser(m, acct, cred.Username, "get" \in faults)
        h == handleHTTPError(g.m, acct, g.err, MethodGet, newPasswd, "getRetry" \in faults)
        isNewUser == isNewUserOf(h.err)
        hashingAlgorithm == hashingAlgorithmOf(g.user)
        p == PutUser(Arrived(h.m, newPasswd, "race" \in faults), acct, cred.Username,
                     UserSettings(cred, hashingAlgorithm), "put" \in faults)
        q == UpdatePermissionsIn(p.m, acct, "/", cred.Username, defaultUserPermissions,
                                 "perm" \in faults)
    IN  IF h.err # Nil /\ h.err # errNotFound THEN [m |-> h.m, err |-> h.err]
        ELSE IF p.err # Nil
        THEN handleHTTPError(p.m, acct, p.err, MethodPut, newPasswd, "putRetry" \in faults)
        ELSE IF isNewUser
        THEN [m |-> q.m, err |-> IF q.err # Nil THEN errOther ELSE Nil]
        ELSE [m |-> p.m, err |-> Nil]

\* The admin file after ini.LooseLoad: <<section, key>> -> value; a missing file
\* loads as the empty file.  Key(key).String() of the default section.
FileValue(file, key) ==
    IF <<adminFileSection, key>> \in DOMAIN file
    THEN file[<<adminFileSection, key>>]
    ELSE EmptyStr

checkAdminFile(m, cred, fault) ==
    LET correct == /\ ~fault
                   /\ TrimSpace(FileValue(m.adminFile, "username")) = cred.Username
                   /\ TrimSpace(FileValue(m.adminFile, "password")) = cred.Password
    IN  [m |-> Logged(m, Call("checkAdminFile", adminUserID, cred.Username, m.client,
                              NoSettings, IF fault THEN errOther ELSE Nil)),
         correct |-> correct]

\* Mutant: the file is rewritten with the two managed keys only.
updateAdminFileManagedOnly(m, cred, fault) ==
    LET saved == (<<adminFileSection, "username">> :> cred.Username) @@
                 (<<adminFileSection, "password">> :> cred.Password)
    IN  Logged([m EXCEPT !.adminFile = IF fault THEN @ ELSE saved],
               Call("updateAdminFile", adminUserID, cred.Username, m.client,
                    NoSettings, IF fault THEN errOther ELSE Nil))

updateAdminFile(m, cred, fault) ==
    LET saved == [k \in DOMAIN m.adminFile \cup {<<adminFileSection, "username">>,
                                                  <<adminFileSection, "password">>} |->
                    IF k = <<adminFileSection, "username">> THEN cred.Username
                    ELSE IF k = <<adminFileSection, "password">> THEN cred.Password
                    ELSE m.adminFile[k]]
    IN  Logged([m EXCEPT !.adminFile = IF fault THEN @ ELSE saved],
               Call("updateAdminFile", adminUserID, cred.Username, m.client,
                    NoSettings, IF fault THEN errOther ELSE Nil))

ClientOf(state) ==
    [Username |-> Lookup(state, adminUserID).Username,
     Password |-> Lookup(state, adminUserID).Password]

\* Mutant: the username is compared in place of the tag.
UnchangedComparesUsername(state, id, creds) ==
    /\ id \in DOMAIN state
    /\ state[id].Password = creds.Password
    /\ state[id].Username = creds.Username

\* Mutant: the tag is not compared.
UnchangedIgnoresTag(state, id, creds) ==
    /\ id \in DOMAIN state
    /\ state[id].Password = creds.Password

Unchanged(state, id, creds) ==
    /\ id \in DOMAIN state
    /\ state[id].Password = creds.Password
    /\ state[id].Tag = creds.Tag

\* Mutant: the second identity check (changed username) is left out.
adminPreAuthOnce(m, id, creds, faults) ==
    IF id # adminUserID THEN [m |-> m, err |-> Nil]
    ELSE authenticate(m, id, "auth1" \in faults)

\* Lines 123-140: the identity checks made before an admin apply.
adminPreAuth(m, id, creds, faults) ==
    LET a1 == authenticate(m, id, "auth1" \in faults)
        a2 == authenticate(a1.m, id, "auth2" \in faults)
    IN  IF id # adminUserID THEN [m |-> m, err |-> Nil]
        ELSE IF a1.err # Nil THEN a1
        ELSE IF a1.m.client.Username # creds.Username THEN a2
        ELSE a1

\* Mutant: the new credential is not stored.
commitClientOnly(m, id, newCred) == [m EXCEPT !.client = ClientOf(m.state)]

\* Mutant: the client keeps the credentials it has.
commitStateOnly(m, id, newCred) ==
    [m EXCEPT !.state = [k \in DOMAIN m.state \cup {id} |->
                            IF k = id THEN newCred ELSE m.state[k]]]

\* Lines 153-157: commit to CredentialState and reset the client.
commit(m, id, newCred) ==
    LET state == [k \in DOMAIN m.state \cup {id} |->
                    IF k = id THEN newCred ELSE m.state[k]]
    IN  [m EXCEPT !.state = state, !.client = ClientOf(state)]

\* Lines 159-181: the admin file sync and the final identity check.
adminFileSync(m, id, newCred, faults) ==
    LET c == checkAdminFile(m, newCred, "check" \in faults)
        w == IF c.correct THEN c.m ELSE updateAdminFile(c.m, newCred, "save" \in faults)
    IN  IF id # adminUserID THEN m
        ELSE authenticate(w, id, "verify" \in faults).m

\* Mutant: a failure during the sync or the final check ends the pass.
syncOutcomeFatal(before, after) ==
    IF \E i \in Len(before.calls) + 1..Len(after.calls) : after.calls[i].res # Nil
    THEN "return"
    ELSE "next"

\* Lines 162-180: the errors of the sync and of the final check are logged and
\* the loop goes on with the next key.
syncOutcome(before, after) == "next"

\* One iteration of the range loop of processSecrets (lines 113-182).
\* outcome: "next" (continue with the next key), "break", "return" (error).
processOne(m, id, spec, faults) ==
    LET creds == spec[id]
        a == adminPreAuth(m, id, creds, faults)
        u == updateInRabbitMQ(a.m, id, creds, spec, faults)
        c == commit(u.m, id, creds)
        s == adminFileSync(c, id, creds, faults)
    IN  IF Unchanged(m.state, id, creds) THEN [m |-> m, outcome |-> "next"]
        ELSE IF a.err # Nil THEN [m |-> a.m, outcome |-> "return"]
        ELSE IF u.err # Nil THEN [m |-> u.m, outcome |-> "break"]
        ELSE [m |-> s, outcome |-> syncOutcome(c, s)]

----------------------------------------------------------------------------
(* The deployment the model explores *)

AdminUsernameFile == UserFile(adminUserID, usernameFileSuffix)
AdminPasswordFile == UserFile(adminUserID, passwordFileSuffix)
AdminTagFile == UserFile(adminUserID, tagFileSuffix)
DefaultUsernameFile == UserFile("default", usernameFileSuffix)
DefaultPasswordFile == UserFile("default", passwordFileSuffix)
DefaultTagFile == UserFile("default", tagFileSuffix)
BackupFile == <<userFilePrefix, "default", ".bak">>
DataLink == <<"", "..data", "">>

initConfigFiles ==
    (AdminUsernameFile :> <<"admin">>) @@ (AdminPasswordFile :> <<"pwd1">>) @@
    (AdminTagFile :> <<"administrator">>) @@
    (DefaultUsernameFile :> <<"default">>) @@ (DefaultPasswordFile :> <<"pwd1">>) @@
    (DefaultTagFile :> <<"mytag">>) @@
    (BackupFile :> <<"pwd0">>) @@ (DataLink :> <<>>)

\* What the environment writes into the watched directory.
Writable ==
    {<<AdminPasswordFile, <<"pwd1">>>>, <<AdminPasswordFile, <<"pwd2", "\n">>>>,
     <<AdminPasswordFile, <<" ", "\n">>>>,
     <<AdminUsernameFile, <<"root">>>>, <<AdminUsernameFile, <<"\t">>>>,
     <<DefaultPasswordFile, <<" ", "pwd2">>>>,
     <<BackupFile, <<"pwd0">>>>, <<DataLink, <<>>>>}

\* The passwords another party sets on the service.
RotatedPasswords == {<<"pwd2">>, <<"pwd3">>}

\* The calls of an iteration that can fail for another reason than 401 or 404,
\* and "race": the remote change that can arrive during it.
FaultPoints ==
    {"auth1", "auth2", "get", "getRetry", "race", "put", "putRetry", "perm",
     "check", "save", "verify"}

FaultPlans == {F \in SUBSET FaultPoints : Cardinality(F) <= MaxFaults}

RemoteUser(password, tag, algorithm) ==
    [Password |-> password, Tags |-> <<tag>>, HashingAlgorithm |-> algorithm]

----------------------------------------------------------------------------
(* NewPasswordUpdater: the state after construction.  The body of
   cleanupMissingUsers (password_updater.go:53) is not part of the sources;
   every account of the remote service has its files in the initial
   directory, so no account is missing from the loaded credentials, and
   processSecrets sets the client's credentials anew at the start of each
   pass (event_handler.go:104-105). *)

Init ==
    /\ dir = initConfigFiles
    /\ events = <<>>
    /\ CredentialState = loadSecrets(dir).creds
    /\ CredentialSpec = CredentialState
    /\ client = ClientOf(CredentialState)
    /\ rmq = (<<"admin">> :> RemoteUser(<<"pwd1">>, <<"administrator">>, "adminalgo")) @@
             (<<"default">> :> RemoteUser(<<"pwd1">>, <<"mytag">>, "myalgo"))
    /\ adminFile = (<<adminFileSection, "username">> :> <<"admin">>) @@
                   (<<adminFileSection, "password">> :> <<"pwd1">>)
    /\ closed = FALSE
    /\ watchErrors = 0
    /\ pc = "select"
    /\ todo = {}
    /\ userID = NoID
    /\ calls = <<>>
    /\ Done = 0
    /\ writes = 0
    /\ rotations = 0
    /\ authClient = [Username |-> EmptyStr, Password |-> EmptyStr]
    /\ granted = {<<"admin">>, <<"default">>}

----------------------------------------------------------------------------
(* The environment *)

\* Another process writes a file of the watched directory; fsnotify queues an event.
WriteFile ==
    \E w \in Writable :
        /\ writes < MaxWrites
        /\ Len(events) < MaxEvents
        /\ dir' = [f \in DOMAIN dir \cup {w[1]} |-> IF f = w[1] THEN w[2] ELSE dir[f]]
        /\ events' = IF closed THEN events ELSE Append(events, w[1])
        /\ writes' = writes + 1
        /\ UNCHANGED <<authClient, granted, CredentialState, CredentialSpec, client, rmq, adminFile, pc,
                       todo, userID, calls, Done, rotations, closed, watchErrors>>

\* Another party (another replica, an operator) changes a password on the service.
RemoteRotate ==
    \E name \in DOMAIN rmq, pw \in RotatedPasswords :
        /\ rotations < MaxRotations
        /\ rmq[name].Password # pw
        /\ rmq' = [rmq EXCEPT ![name].Password = pw]
        /\ rotations' = rotations + 1
        /\ UNCHANGED <<authClient, granted, dir, events, CredentialState, CredentialSpec, client, adminFile,
                       pc, todo, userID, calls, Done, writes, closed, watchErrors>>

----------------------------------------------------------------------------
(* HandleEvents *)

\* Lines 69-76: an event whose file is no secret file is dropped.
HandleEventIgnored ==
    /\ pc = "select"
    /\ events # <<>>
    /\ ~isSecretFile(Head(events))
    /\ events' = Tail(events)
    /\ UNCHANGED <<authClient, granted, dir, CredentialState, CredentialSpec, client, rmq, adminFile, pc,
                   todo, userID, calls, Done, writes, rotations, closed, watchErrors>>

\* Mutant: HandleEvents goes on after a failed load.
HandleEventLoadKeepsRunning ==
    /\ pc = "select"
    /\ events # <<>>
    /\ isSecretFile(Head(events))
    /\ events' = Tail(events)
    /\ client' = ClientOf(CredentialState)
    /\ CredentialSpec' = IF loadSecrets(dir).err THEN CredentialSpec
                         ELSE loadSecrets(dir).creds
    /\ calls' = <<>>
    /\ userID' = NoID
    /\ Done' = IF loadSecrets(dir).err THEN Done + 1 ELSE Done
    /\ todo' = IF loadSecrets(dir).err THEN {} ELSE DOMAIN loadSecrets(dir).creds
    /\ pc' = IF todo' = {} THEN "select" ELSE "range"
    /\ UNCHANGED <<authClient, granted, dir, CredentialState, rmq, adminFile, writes, rotations, closed,
                   watchErrors>>

\* Mutant: a notification is taken while a pass is in progress.
HandleEventLoadDuringPass ==
    /\ pc \in {"select", "range"}
    /\ events # <<>>
    /\ isSecretFile(Head(events))
    /\ events' = Tail(events)
    /\ client' = ClientOf(CredentialState)
    /\ CredentialSpec' = loadSecrets(dir).creds
    /\ calls' = <<>>
    /\ userID' = NoID
    /\ IF loadSecrets(dir).err
       THEN /\ Done' = Done + 1
            /\ pc' = "returned"
            /\ todo' = {}
       ELSE /\ Done' = Done
            /\ todo' = DOMAIN loadSecrets(dir).creds
            /\ pc' = IF todo' = {} THEN "select" ELSE "range"
    /\ UNCHANGED <<authClient, granted, dir, CredentialState, rmq, adminFile, writes, rotations, closed,
                   watchErrors>>

\* Lines 69-81 and 102-111: an event of a secret file starts processSecrets, which
\* sets the client's credentials and loads the directory.
HandleEventLoad ==
    /\ pc = "select"
    /\ events # <<>>
    /\ isSecretFile(Head(events))
    /\ events' = Tail(events)
    /\ client' = ClientOf(CredentialState)
    /\ CredentialSpec' = loadSecrets(dir).creds
    /\ calls' = <<>>
    /\ userID' = NoID
    /\ IF loadSecrets(dir).err
       THEN /\ Done' = Done + 1
            /\ pc' = "returned"
            /\ todo' = {}
       ELSE /\ Done' = Done
            /\ todo' = DOMAIN loadSecrets(dir).creds
            /\ pc' = IF todo' = {} THEN "select" ELSE "range"
    /\ UNCHANGED <<authClient, granted, dir, CredentialState, rmq, adminFile, writes, rotations, closed,
                   watchErrors>>

\* Lines 113-182: one iteration of the range loop, over any key not yet visited.
RangeStepWith(id, faults) ==
        LET m0 == [client |-> client, rmq |-> rmq, calls |-> calls,
                   state |-> CredentialState, adminFile |-> adminFile,
                   rotations |-> rotations,
                   authClient |-> authClient, granted |-> granted]
            r == processOne(m0, id, CredentialSpec, faults)
        IN  /\ pc = "range"
            /\ id \in todo
            /\ userID' = id
            /\ client' = r.m.client
            /\ rmq' = r.m.rmq
            /\ calls' = r.m.calls
            /\ CredentialState' = r.m.state
            /\ adminFile' = r.m.adminFile
            /\ todo' = IF r.outcome = "next" THEN todo \ {id} ELSE {}
            /\ Done' = IF r.outcome = "return" THEN Done + 1 ELSE Done
            /\ pc' = IF r.outcome = "return" THEN "returned"
                     ELSE IF todo' = {} THEN "select" ELSE "range"
            /\ rotations' = r.m.rotations
            /\ authClient' = r.m.authClient
            /\ granted' = r.m.granted
            /\ UNCHANGED <<dir, events, CredentialSpec, writes, closed, watchErrors>>

RangeStep == \E id \in todo, faults \in FaultPlans : RangeStepWith(id, faults)

Next ==
    \/ WriteFile
    \/ RemoteRotate
    \/ HandleEventIgnored
    \/ HandleEventLoad
    \/ RangeStep

Spec == Init /\ [][Next]_vars

----------------------------------------------------------------------------
(* The Watcher fails or is closed.  SpecWatch has the error channel of the  *)
(* Watcher and the closing of its two channels; the service is changed by   *)
(* the program and by the replica racing with an iteration only.  After     *)
(* the close, HandleEvents can still take a notification queued before it.  *)

\* fsnotify reports an error on Watcher.Errors.
WatcherError ==
    /\ ~closed
    /\ watchErrors < MaxWatchErrors
    /\ watchErrors' = watchErrors + 1
    /\ UNCHANGED <<authClient, granted, dir, events, CredentialState, CredentialSpec, client, rmq, adminFile,
                   pc, todo, userID, calls, Done, writes, rotations, closed>>

\* The Watcher is closed: Watcher.Events and Watcher.Errors are closed.
WatcherClose ==
    /\ ~closed
    /\ closed' = TRUE
    /\ UNCHANGED <<authClient, granted, dir, events, CredentialState, CredentialSpec, client, rmq, adminFile,
                   pc, todo, userID, calls, Done, writes, rotations, watchErrors>>

\* Lines 83 and 89: an error received from Watcher.Errors is logged.
HandleWatchError ==
    /\ pc = "select"
    /\ watchErrors > 0
    /\ watchErrors' = watchErrors - 1
    /\ UNCHANGED <<authClient, granted, dir, events, CredentialState, CredentialSpec, client, rmq, adminFile,
                   pc, todo, userID, calls, Done, writes, rotations, closed>>

\* Lines 69-74: the receive from Watcher.Events finds the channel closed.
HandleEventsClosed ==
    /\ pc = "select"
    /\ closed
    /\ Done' = Done + 1
    /\ pc' = "returned"
    /\ UNCHANGED <<authClient, granted, dir, events, CredentialState, CredentialSpec, client, rmq, adminFile,
                   todo, userID, calls, writes, rotations, closed, watchErrors>>

\* Lines 83-88: the receive from Watcher.Errors finds the channel closed.
HandleErrorsClosed ==
    /\ pc = "select"
    /\ closed
    /\ watchErrors = 0
    /\ Done' = Done + 1
    /\ pc' = "returned"
    /\ UNCHANGED <<authClient, granted, dir, events, CredentialState, CredentialSpec, client, rmq, adminFile,
                   todo, userID, calls, writes, rotations, closed, watchErrors>>

NextWatch ==
    \/ WriteFile
    \/ HandleEventIgnored
    \/ HandleEventLoad
    \/ RangeStep
    \/ WatcherError
    \/ WatcherClose
    \/ HandleWatchError
    \/ HandleEventsClosed
    \/ HandleErrorsClosed

SpecWatch == Init /\ [][NextWatch]_vars

----------------------------------------------------------------------------
(* Construction.  SpecNew starts before NewPasswordUpdater is called, over  *)
(* the directories a deployment can start with: each file of the fixture    *)
(* is absent, blank or set.                                                 *)

SecretFiles ==
    {AdminUsernameFile, AdminPasswordFile, AdminTagFile,
     DefaultUsernameFile, DefaultPasswordFile, DefaultTagFile}

Blank == <<" ", "\n">>

DirOf(c) ==
    [f \in {g \in DOMAIN c : c[g] # "absent"} |->
        IF c[f] = "blank" THEN Blank ELSE initConfigFiles[f]]

StartDirs == {DirOf(c) : c \in [SecretFiles -> {"absent", "blank", "set"}]}

\* main.go builds the clients with empty credentials and calls NewPasswordUpdater.
InitNew ==
    /\ dir \in StartDirs
    /\ events = <<>>
    /\ CredentialState = <<>>
    /\ CredentialSpec = <<>>
    /\ client = [Username |-> EmptyStr, Password |-> EmptyStr]
    /\ rmq = (<<"admin">> :> RemoteUser(<<"pwd1">>, <<"administrator">>, "adminalgo")) @@
             (<<"default">> :> RemoteUser(<<"pwd1">>, <<"mytag">>, "myalgo"))
    /\ adminFile = (<<adminFileSection, "username">> :> <<"admin">>) @@
                   (<<adminFileSection, "password">> :> <<"pwd1">>)
    /\ pc = "new"
    /\ todo = {}
    /\ userID = NoID
    /\ calls = <<>>
    /\ Done = 0
    /\ writes = 0
    /\ rotations = 0
    /\ authClient = [Username |-> EmptyStr, Password |-> EmptyStr]
    /\ granted = {<<"admin">>, <<"default">>}
    /\ closed = FALSE
    /\ watchErrors = 0

\* password_updater.go:27-51: the credentials are loaded; a failed load makes
\* NewPasswordUpdater fail, else the two maps are set and, when there is an
\* admin entry, the client's credentials.  The body of cleanupMissingUsers
\* (line 53), which runs after that, is not part of the sources.
NewPasswordUpdater ==
    /\ pc = "new"
    /\ IF loadSecrets(dir).err
       THEN /\ pc' = "failed"
            /\ UNCHANGED <<CredentialState, CredentialSpec, client>>
       ELSE /\ pc' = "select"
            /\ CredentialState' = loadSecrets(dir).creds
            /\ CredentialSpec' = loadSecrets(dir).creds
            /\ client' = IF adminUserID \in DOMAIN loadSecrets(dir).creds
                         THEN ClientOf(loadSecrets(dir).creds)
                         ELSE client
    /\ UNCHANGED <<authClient, granted, dir, events, rmq, adminFile, todo, userID, calls, Done, writes,
                   rotations, closed, watchErrors>>

NextNew == NewPasswordUpdater

SpecNew == InitNew /\ [][NextNew]_vars

----------------------------------------------------------------------------
(* The admin file.  SpecAdminFile applies updateAdminFile to the admin      *)
(* files a deployment can hold: a missing (empty) file, and files with      *)
(* keys of the default section and of another section.                      *)

ManagedKeys == {<<adminFileSection, "username">>, <<adminFileSection, "password">>}

AdminFileKeys ==
    ManagedKeys \cup {<<adminFileSection, "hostname">>, <<"host_normal", "password">>}

AdminFileOf(c) ==
    [k \in {j \in DOMAIN c : c[j] # "absent"} |-> <<c[k]>>]

AdminFiles == {AdminFileOf(c) : c \in [AdminFileKeys -> {"absent", "pwd1", "pwd2"}]}

AdminCredentials ==
    {[Username |-> <<"admin">>, Password |-> <<"pwd2">>, Tag |-> <<"administrator">>],
     [Username |-> <<"root">>, Password |-> <<"pwd1">>, Tag |-> <<"administrator">>]}

\* processSecrets has applied and committed the admin credential and is about
\* to write the admin file.
InitAdminFile ==
    /\ dir = initConfigFiles
    /\ events = <<>>
    /\ \E cred \in AdminCredentials :
          /\ CredentialSpec = (adminUserID :> cred)
          /\ CredentialState = CredentialSpec
          /\ client = ClientOf(CredentialState)
          /\ rmq = (cred.Username :> RemoteUser(cred.Password, cred.Tag, "adminalgo"))
    /\ adminFile \in AdminFiles
    /\ pc = "save"
    /\ todo = {adminUserID}
    /\ userID = adminUserID
    /\ calls = <<>>
    /\ Done = 0
    /\ writes = 0
    /\ rotations = 0
    /\ authClient = [Username |-> EmptyStr, Password |-> EmptyStr]
    /\ granted = {<<"admin">>, <<"default">>}
    /\ closed = FALSE
    /\ watchErrors = 0

\* event_handler.go:167: updateAdminFile(newCred); its error is logged.
SaveAdminFile ==
    \E fault \in BOOLEAN :
        LET m0 == [client |-> client, rmq |-> rmq, calls |-> calls,
                   state |-> CredentialState, adminFile |-> adminFile,
                   rotations |-> rotations,
                   authClient |-> authClient, granted |-> granted]
            m1 == updateAdminFile(m0, CredentialSpec[adminUserID], fault)
        IN  /\ pc = "save"
            /\ pc' = "saved"
            /\ adminFile' = m1.adminFile
            /\ calls' = m1.calls
            /\ UNCHANGED <<authClient, granted, dir, events, CredentialState, CredentialSpec, client, rmq,
                           todo, userID, Done, writes, rotations, closed, watchErrors>>

NextAdminFile == SaveAdminFile

SpecAdminFile == InitAdminFile /\ [][NextAdminFile]_vars

----------------------------------------------------------------------------
(* main.  SpecMain adds the select of main.go:81-86, which ends the process *)
(* and with it the goroutine that runs HandleEvents.                        *)

\* main.go:65-66, 82-83: SIGTERM or SIGINT is delivered; main returns.
SignalExit ==
    /\ pc \in {"select", "range", "returned"}
    /\ pc' = "exited"
    /\ UNCHANGED <<authClient, granted, dir, events, CredentialState, CredentialSpec, client, rmq, adminFile,
                   todo, userID, calls, Done, writes, rotations, closed, watchErrors>>

\* main.go:84-85: main receives the value HandleEvents sent on Done; main returns.
DoneExit ==
    /\ pc = "returned"
    /\ Done > 0
    /\ pc' = "exited"
    /\ UNCHANGED <<authClient, granted, dir, events, CredentialState, CredentialSpec, client, rmq, adminFile,
                   todo, userID, calls, Done, writes, rotations, closed, watchErrors>>

NextMain ==
    \/ WriteFile
    \/ RemoteRotate
    \/ HandleEventIgnored
    \/ HandleEventLoad
    \/ RangeStep
    \/ SignalExit
    \/ DoneExit

SpecMain == Init /\ [][NextMain]_vars

----------------------------------------------------------------------------
(* Two replicas.  SpecReplicas runs the engine next to a peer replica that  *)
(* was seeded with the same credentials, watches the same files and talks   *)
(* to the same service.  Of the peer only its effect on the service is      *)
(* kept: its pass over a changed admin password.                            *)

\* The credential both replicas were seeded with.
SeedAdmin ==
    [Username |-> TrimSpace(initConfigFiles[AdminUsernameFile]),
     Password |-> TrimSpace(initConfigFiles[AdminPasswordFile])]

\* The peer's pass over the admin entry (event_handler.go:117-152 and 187-218):
\* the password it loads differs from its Last-Applied one, its identity check
\* and its GetUser pass, and its PutUser sets the new password and the tag.
PeerApplies ==
    LET desired == loadSecrets(dir)
        name == SeedAdmin.Username
    IN  /\ rotations < MaxRotations
        /\ ~desired.err
        /\ adminUserID \in DOMAIN desired.creds
        /\ desired.creds[adminUserID].Username = name
        /\ desired.creds[adminUserID].Password # SeedAdmin.Password
        /\ AuthOK(SeedAdmin, rmq)
        /\ rmq' = [rmq EXCEPT ![name] =
                      [Password |-> desired.creds[adminUserID].Password,
                       Tags |-> <<desired.creds[adminUserID].Tag>>,
                       HashingAlgorithm |-> rmq[name].HashingAlgorithm]]
        /\ rotations' = rotations + 1
        /\ UNCHANGED <<authClient, granted, dir, events, CredentialState, CredentialSpec, client, adminFile,
                       pc, todo, userID, calls, Done, writes, closed, watchErrors>>

NextReplicas ==
    \/ WriteFile
    \/ PeerApplies
    \/ HandleEventIgnored
    \/ HandleEventLoad
    \/ RangeStep

SpecReplicas == Init /\ [][NextReplicas]_vars

----------------------------------------------------------------------------
(* Accounts that come, go and change.  SpecSeed starts before               *)
(* NewPasswordUpdater is called, with the admin files of the fixture and    *)
(* each file of account "default" absent, blank, padded with white space,   *)
(* set, set to another value or unreadable; afterwards such a file is       *)
(* rewritten to another of these, or written as it was.                     *)

MaxRewrites == 1

SeedOptions == {"absent", "blank", "padded", "set", "other", "unreadable"}

DefaultFiles == {DefaultUsernameFile, DefaultPasswordFile, DefaultTagFile}

SeedContent(f, o) ==
    IF o = "blank" THEN Blank
    ELSE IF o = "padded" THEN <<" ">> \o initConfigFiles[f] \o <<"\n">>
    ELSE IF o = "other" THEN <<"other">>
    ELSE IF o = "unreadable" THEN Unreadable
    ELSE initConfigFiles[f]

SeedDirOf(c) ==
    [f \in (DOMAIN initConfigFiles \ DefaultFiles)
            \cup {g \in DOMAIN c : c[g] # "absent"} |->
        IF f \in DOMAIN c THEN SeedContent(f, c[f]) ELSE initConfigFiles[f]]

SeedDirs == {SeedDirOf(c) : c \in [DefaultFiles -> SeedOptions]}

InitSeed ==
    /\ dir \in SeedDirs
    /\ events = <<>>
    /\ CredentialState = <<>>
    /\ CredentialSpec = <<>>
    /\ client = [Username |-> EmptyStr, Password |-> EmptyStr]
    /\ rmq = (<<"admin">> :> RemoteUser(<<"pwd1">>, <<"administrator">>, "adminalgo")) @@
             (<<"default">> :> RemoteUser(<<"pwd1">>, <<"mytag">>, "myalgo"))
    /\ adminFile = (<<adminFileSection, "username">> :> <<"admin">>) @@
                   (<<adminFileSection, "password">> :> <<"pwd1">>)
    /\ pc = "new"
    /\ todo = {}
    /\ userID = NoID
    /\ calls = <<>>
    /\ Done = 0
    /\ writes = 0
    /\ rotations = 0
    /\ authClient = [Username |-> EmptyStr, Password |-> EmptyStr]
    /\ granted = {<<"admin">>, <<"default">>}
    /\ closed = FALSE
    /\ watchErrors = 0

\* A file of account "default" is written, removed or made unreadable, or
\* another file is written as it was; fsnotify queues an event.
Rewrite ==
    \E f \in DefaultFiles \cup {BackupFile, DataLink}, o \in SeedOptions :
        /\ pc # "new"
        /\ writes < MaxRewrites
        /\ Len(events) < MaxEvents
        /\ f \notin DefaultFiles => o = "set"
        /\ dir' = IF f \notin DefaultFiles THEN dir
                  ELSE [g \in IF o = "absent" THEN DOMAIN dir \ {f} ELSE DOMAIN dir \cup {f} |->
                          IF g = f THEN SeedContent(f, o) ELSE dir[g]]
        /\ events' = Append(events, f)
        /\ writes' = writes + 1
        /\ UNCHANGED <<authClient, granted, CredentialState, CredentialSpec, client, rmq, adminFile, pc,
                       todo, userID, calls, Done, rotations, closed, watchErrors>>

\* An iteration of the range loop in which no call fails for a reason other
\* than 401 or 404.
RangeStepNoFault == \E id \in todo : RangeStepWith(id, {})

NextSeed ==
    \/ NewPasswordUpdater
    \/ Rewrite
    \/ HandleEventIgnored
    \/ HandleEventLoad
    \/ RangeStepNoFault

SpecSeed == InitSeed /\ [][NextSeed]_vars

----------------------------------------------------------------------------
(* A stream of notifications that never ends: the modification time of a    *)
(* password file is set again and again, and from some point on no call and *)
(* no file operation fails.                                                 *)

TouchFiles == {AdminPasswordFile, DefaultPasswordFile}

\* os.Chtimes on a file of the directory: an event, the content as it was.
Touch ==
    \E f \in TouchFiles \cap DOMAIN dir :
        /\ Len(events) < MaxEvents
        /\ events' = Append(events, f)
        /\ UNCHANGED <<authClient, granted, dir, CredentialState, CredentialSpec, client, rmq, adminFile, pc,
                       todo, userID, calls, Done, writes, rotations, closed, watchErrors>>

NextLive ==
    \/ WriteFile
    \/ RemoteRotate
    \/ Touch
    \/ HandleEventIgnored
    \/ HandleEventLoad
    \/ RangeStep

\* The iteration over key id met no failure: no call and no file operation
\* failed for a reason other than 401 or 404, and no other party interfered.
CleanStepOn(id) ==
    /\ pc = "range"
    /\ id \in todo
    /\ id \notin todo'
    /\ userID' = id
    /\ rotations' = rotations
    /\ \A i \in Len(calls) + 1..Len(calls') : calls'[i].res # errOther

\* A file is touched whenever the queue has room, and the worker goroutine
\* keeps running: it takes a queued notification when it is at the select, and
\* a pass it started comes to its end. Failures cease: an iteration that is
\* tried again and again meets no failure in the end.
FairLive ==
    /\ WF_vars(Touch)
    /\ WF_vars(HandleEventIgnored)
    /\ WF_vars(HandleEventLoad)
    /\ []<>(pc # "range")
    /\ \A id \in {adminUserID, "default"} :
           <>[](~(pc = "range" /\ id \in todo)) \/ []<><<CleanStepOn(id)>>_vars

SpecLive == Init /\ [][NextLive]_vars /\ FairLive

----------------------------------------------------------------------------
(* Vocabulary of the properties *)

\* The step is the iteration of the range loop over key id.
RangeStepOn(id) ==
    /\ pc = "range"
    /\ id \in todo
    /\ id \notin todo'
    /\ userID' = id

\* The calls the step issued.
NewCalls == SubSeq(calls', Len(calls) + 1, Len(calls'))

IsPutFor(c, id) == c.op = "PutUser" /\ c.acct = id

PutsFor(cs, id) == SelectSeq(cs, LAMBDA c : IsPutFor(c, id))

\* No call of the sequence failed for a reason other than 401 or 404.
NoFault(cs) == \A i \in 1..Len(cs) : cs[i].res # errOther

\* Key id of the loaded directory is dirty.
Dirty(id) ==
    ~(/\ id \in DOMAIN CredentialState
      /\ CredentialState[id].Password = CredentialSpec[id].Password
      /\ CredentialState[id].Tag = CredentialSpec[id].Tag)

OldAdmin ==
    [Username |-> CredentialState[adminUserID].Username,
     Password |-> CredentialState[adminUserID].Password]

NewAdmin ==
    [Username |-> CredentialSpec[adminUserID].Username,
     Password |-> CredentialSpec[adminUserID].Password]

\* The admin password as rotated on its present username.
OldAdminNewPassword ==
    [Username |-> CredentialState[adminUserID].Username,
     Password |-> CredentialSpec[adminUserID].Password]

AdminKnown == adminUserID \in DOMAIN CredentialState /\ adminUserID \in DOMAIN CredentialSpec

----------------------------------------------------------------------------
(* C1: an iteration over an account whose password and tag equal its        *)
(* Last-Applied entry issues no PutUser (it issues no call at all and       *)
(* leaves the remote service alone); a pass starts with an empty call log,  *)
(* so a pass over unchanged credentials issues no PutUser at all.           *)

C1_Idempotence ==
    [][ /\ \A id \in DOMAIN CredentialSpec :
              (RangeStepOn(id) /\ ~Dirty(id)) =>
                  /\ PutsFor(NewCalls, id) = <<>>
                  /\ calls' = calls
                  /\ rmq' = rmq
        /\ (pc = "select" /\ pc' = "range") => calls' = <<>>
      ]_vars

\* A pass over unchanged credentials ran to its end, after an earlier pass had
\* applied a new default password, and issued no call.
C1_Witness ==
    /\ pc = "select"
    /\ userID # NoID
    /\ calls = <<>>
    /\ CredentialState = CredentialSpec
    /\ CredentialState["default"].Password = <<"pwd2">>

(* C2: a non-admin account's password changed, the service still holds the  *)
(* old password for it, the client's credentials authenticate and GetUser   *)
(* reports the account: the iteration issues exactly one PutUser for it,    *)
(* with the desired username, the one desired tag, the desired password     *)
(* and the hashing algorithm the service holds for the account.             *)

C2_DefaultUserUpdate ==
    [][ \A id \in DOMAIN CredentialSpec \ {adminUserID} :
            ( /\ RangeStepOn(id)
              /\ id \in DOMAIN CredentialState
              /\ CredentialState[id].Password # CredentialSpec[id].Password
              /\ CredentialSpec[id].Username \in DOMAIN rmq
              /\ rmq[CredentialSpec[id].Username].Password = CredentialState[id].Password
              /\ AuthOK(client, rmq)
              /\ NewCalls # <<>>
              /\ NewCalls[1].res = Nil )
            =>
            /\ Len(PutsFor(NewCalls, id)) = 1
            /\ PutsFor(calls', id) = PutsFor(NewCalls, id)
            /\ PutsFor(NewCalls, id)[1].name = CredentialSpec[id].Username
            /\ PutsFor(NewCalls, id)[1].settings =
                  [Name |-> CredentialSpec[id].Username,
                   Tags |-> <<CredentialSpec[id].Tag>>,
                   Password |-> CredentialSpec[id].Password,
                   HashingAlgorithm |-> rmq[CredentialSpec[id].Username].HashingAlgorithm]
      ]_vars

\* The default user was fetched with its old password and updated to pwd2.
C2_Witness ==
    \E i \in 1..Len(calls) :
        /\ i < Len(calls)
        /\ calls[i].op = "GetUser"
        /\ calls[i].acct = "default"
        /\ calls[i].res = Nil
        /\ calls[i].settings.Password = <<"pwd1">>
        /\ calls[i].settings.HashingAlgorithm = "myalgo"
        /\ calls[i + 1].op = "PutUser"
        /\ calls[i + 1].res = Nil
        /\ calls[i + 1].settings =
              [Name |-> <<"default">>, Tags |-> <<<<"mytag">>>>,
               Password |-> <<"pwd2">>, HashingAlgorithm |-> "myalgo"]

(* C3: when GetUser for a dirty account is rejected with 401 and the         *)
(* identity check made with the new password succeeds, no PutUser is issued  *)
(* for that account in the pass.                                             *)

C3_NoPutAfterFallback ==
    \A i \in 1..Len(calls) :
        ( /\ i < Len(calls)
          /\ calls[i].op = "GetUser"
          /\ calls[i].res = errUnauthorized
          /\ calls[i + 1].op = "Whoami"
          /\ calls[i + 1].res = Nil )
        => PutsFor(calls, calls[i].acct) = <<>>

(* C4: in the iteration over the dirty admin account no GetUser or PutUser *)
(* is issued before an identity check made with the Last-Applied admin      *)
(* credentials has succeeded, and before two of them have succeeded when    *)
(* the client's username differs from the desired admin username.           *)

AdminChecksNeeded == IF OldAdmin.Username # NewAdmin.Username THEN 2 ELSE 1

IsGoodCheck(c) == c.op = "Whoami" /\ c.res = Nil /\ c.by = OldAdmin

C4_CheckBeforeAdminApply ==
    [][ (AdminKnown /\ RangeStepOn(adminUserID)) =>
            \A i \in 1..Len(NewCalls) :
                NewCalls[i].op \in {"GetUser", "PutUser"} =>
                    /\ i > AdminChecksNeeded
                    /\ \A j \in 1..AdminChecksNeeded : IsGoodCheck(NewCalls[j])
      ]_vars

\* The admin username and password changed: two identity checks made as the old
\* admin succeeded, then the new admin user was fetched.
C4_Witness ==
    /\ userID = adminUserID
    /\ Len(calls) >= 3
    /\ calls[1].op = "Whoami" /\ calls[1].res = Nil
    /\ calls[2].op = "Whoami" /\ calls[2].res = Nil
    /\ calls[1].by = [Username |-> <<"admin">>, Password |-> <<"pwd1">>]
    /\ calls[2].by = calls[1].by
    /\ calls[3].op = "GetUser" /\ calls[3].name = <<"root">>

(* C5: the admin password changed (the username did not), the old admin     *)
(* password authenticates, the service does not hold the new one (nor is    *)
(* changed by another party meanwhile) and no call fails for another        *)
(* reason: the iteration issues exactly one PutUser                         *)
(* for admin with the desired username, tag, new password and the           *)
(* algorithm the service holds; afterwards the Last-Applied admin entry is  *)
(* the new credential and the admin file's password is the new password.    *)

C5_AdminUpdate ==
    [][ ( /\ AdminKnown
          /\ RangeStepOn(adminUserID)
          /\ OldAdmin.Password # NewAdmin.Password
          /\ OldAdmin.Username = NewAdmin.Username
          /\ AuthOK(OldAdmin, rmq)
          /\ ~AuthOK(NewAdmin, rmq)
          /\ rotations' = rotations
          /\ NoFault(NewCalls) )
        =>
        /\ Len(PutsFor(NewCalls, adminUserID)) = 1
        /\ PutsFor(calls', adminUserID) = PutsFor(NewCalls, adminUserID)
        /\ PutsFor(NewCalls, adminUserID)[1].settings =
              [Name |-> NewAdmin.Username,
               Tags |-> <<CredentialSpec[adminUserID].Tag>>,
               Password |-> NewAdmin.Password,
               HashingAlgorithm |-> rmq[OldAdmin.Username].HashingAlgorithm]
        /\ CredentialState'[adminUserID] = CredentialSpec[adminUserID]
        /\ FileValue(adminFile', "password") = NewAdmin.Password
      ]_vars

\* The admin password was applied: one PutUser with the old algorithm, the
\* Last-Applied entry and the admin file hold pwd2.
C5_Witness ==
    /\ userID = adminUserID
    /\ Len(PutsFor(calls, adminUserID)) = 1
    /\ PutsFor(calls, adminUserID)[1].res = Nil
    /\ PutsFor(calls, adminUserID)[1].settings =
          [Name |-> <<"admin">>, Tags |-> <<<<"administrator">>>>,
           Password |-> <<"pwd2">>, HashingAlgorithm |-> "adminalgo"]
    /\ CredentialState[adminUserID].Password = <<"pwd2">>
    /\ FileValue(adminFile, "password") = <<"pwd2">>

(* C6: the admin password changed and the service already holds the new     *)
(* admin password: no PutUser is issued for admin and the admin file's      *)
(* password ends up equal to the new password.                              *)

C6_AdminAlreadyRotated ==
    [][ ( /\ AdminKnown
          /\ RangeStepOn(adminUserID)
          /\ OldAdmin.Password # NewAdmin.Password
          /\ AuthOK(NewAdmin, rmq)
          /\ NoFault(NewCalls) )
        =>
        /\ PutsFor(NewCalls, adminUserID) = <<>>
        /\ FileValue(adminFile', "password") = NewAdmin.Password
      ]_vars

(* C7: the admin password changed and neither the old nor the new admin     *)
(* password authenticates: no PutUser is issued for admin and the admin     *)
(* file is left as it was.                                                  *)

NeitherAuthenticates ==
    /\ ~AuthOK(OldAdmin, rmq)
    /\ ~AuthOK(NewAdmin, rmq)
    /\ ~AuthOK(OldAdminNewPassword, rmq)

C7_AdminNeitherValid ==
    [][ ( /\ AdminKnown
          /\ RangeStepOn(adminUserID)
          /\ OldAdmin.Password # NewAdmin.Password
          /\ NeitherAuthenticates )
        =>
        /\ PutsFor(NewCalls, adminUserID) = <<>>
        /\ adminFile' = adminFile
      ]_vars

\* The admin iteration ended on a rejected identity check while the service
\* held neither password; the admin file still holds the old one.
C7_Witness ==
    /\ userID = adminUserID
    /\ calls # <<>>
    /\ calls[Len(calls)].op = "Whoami"
    /\ calls[Len(calls)].res = errUnauthorized
    /\ rmq[<<"admin">>].Password = <<"pwd3">>
    /\ CredentialSpec[adminUserID].Password = <<"pwd2">>
    /\ FileValue(adminFile, "password") = <<"pwd1">>

(* C8 (as claimed): the old admin password no longer authenticates and the  *)
(* service does not hold the new one: exactly one PutUser for admin occurs  *)
(* and the Last-Applied admin entry becomes the new credential.             *)

C8_Original ==
    [][ ( /\ AdminKnown
          /\ RangeStepOn(adminUserID)
          /\ OldAdmin.Password # NewAdmin.Password
          /\ NeitherAuthenticates
          /\ NoFault(NewCalls) )
        =>
        /\ Len(PutsFor(NewCalls, adminUserID)) = 1
        /\ CredentialState'[adminUserID] = CredentialSpec[adminUserID]
      ]_vars

(* C8 (amended): the old admin password no longer authenticates and the     *)
(* service does not hold the new one: no PutUser for admin occurs and the   *)
(* Last-Applied State is left as it was.                                    *)

C8_AdminOldInvalid ==
    [][ ( /\ AdminKnown
          /\ RangeStepOn(adminUserID)
          /\ OldAdmin.Password # NewAdmin.Password
          /\ NeitherAuthenticates )
        =>
        /\ PutsFor(NewCalls, adminUserID) = <<>>
        /\ CredentialState' = CredentialState
      ]_vars

\* processSecrets returned on the admin account with the old credential still
\* the Last-Applied one, while the service held neither password.
C8_Witness ==
    /\ pc = "returned"
    /\ userID = adminUserID
    /\ PutsFor(calls, adminUserID) = <<>>
    /\ CredentialState[adminUserID].Password = <<"pwd1">>
    /\ CredentialSpec[adminUserID].Password = <<"pwd2">>
    /\ ~AuthOK([Username |-> <<"admin">>, Password |-> <<"pwd1">>], rmq)
    /\ ~AuthOK([Username |-> <<"admin">>, Password |-> <<"pwd2">>], rmq)

(* C9: a non-admin account is dirty and neither the old nor the new admin   *)
(* password authenticates: exactly one PutUser carrying the desired         *)
(* password is still issued for the account.                                *)

C9_DualInvalidity ==
    [][ \A id \in DOMAIN CredentialSpec \ {adminUserID} :
            ( /\ AdminKnown
              /\ RangeStepOn(id)
              /\ Dirty(id)
              /\ ~AuthOK(client, rmq)
              /\ ~AuthOK(OldAdmin, rmq)
              /\ ~AuthOK(OldAdminNewPassword, rmq)
              /\ NoFault(NewCalls) )
            =>
            /\ Len(PutsFor(NewCalls, id)) = 1
            /\ PutsFor(NewCalls, id)[1].settings.Password = CredentialSpec[id].Password
      ]_vars

(* C10: after an iteration in which the admin apply succeeded               *)
(* the admin file's username and password equal the Last-Applied admin      *)
(* entry, and if they matched before the sync no write occurs.              *)

IsFileOp(c) == c.op \in {"checkAdminFile", "updateAdminFile"}

AdminSynced == \E i \in 1..Len(NewCalls) : NewCalls[i].op = "checkAdminFile"

FileMatches(file, cred) ==
    /\ FileValue(file, "username") = cred.Username
    /\ FileValue(file, "password") = cred.Password

NoFileWrite == \A i \in 1..Len(NewCalls) : NewCalls[i].op # "updateAdminFile"

C10_LocalRecordConvergence ==
    [][ (RangeStepOn(adminUserID) /\ AdminSynced) =>
            /\ FileMatches(adminFile', CredentialState'[adminUserID])
            /\ FileMatches(adminFile, CredentialSpec[adminUserID]) =>
                   (NoFileWrite /\ adminFile' = adminFile)
      ]_vars

----------------------------------------------------------------------------
(* C11: two accounts A and B are dirty in one pass, A was applied and the   *)
(* apply of B fails: the Last-Applied State holds A's new credential and    *)
(* B's previous entry, no further account is processed in the pass, the     *)
(* completion signal is not sent and HandleEvents keeps running.            *)

\* The iteration ended on a failed call and did not reach the admin file sync.
ApplyFailed ==
    /\ NewCalls # <<>>
    /\ NewCalls[Len(NewCalls)].res # Nil
    /\ ~AdminSynced

\* Account id was dirty in this pass and its iteration has run to its end.
AppliedInPass(id) ==
    /\ id \in DOMAIN CredentialSpec
    /\ id \notin todo
    /\ \E i \in 1..Len(calls) : calls[i].acct = id
    /\ Lookup(CredentialState, id) = CredentialSpec[id]

C11_PartialFailureContainment ==
    [][ \A A \in DOMAIN CredentialSpec, B \in DOMAIN CredentialSpec :
            ( /\ A # B
              /\ AppliedInPass(A)
              /\ RangeStepOn(B)
              /\ Dirty(B)
              /\ ApplyFailed )
            =>
            /\ CredentialState'[A] = CredentialSpec[A]
            /\ Lookup(CredentialState', B) = Lookup(CredentialState, B)
            /\ todo' = {}
            /\ Done' = 0
            /\ pc' = "select"
      ]_vars

(* C12: at startup the directory has the admin username file and no admin   *)
(* password file, or an empty one: NewPasswordUpdater fails, no remote call *)
(* is issued and no client credential is set.                               *)

C12_FatalSeed ==
    [][ ( /\ pc = "new"
          /\ AdminUsernameFile \in DOMAIN dir
          /\ \/ AdminPasswordFile \notin DOMAIN dir
             \/ dir[AdminPasswordFile] \in {<<>>, <<" ", "\n">>} )
        =>
        /\ pc' = "failed"
        /\ calls' = <<>>
        /\ client' = [Username |-> EmptyStr, Password |-> EmptyStr]
        /\ rmq' = rmq
      ]_vars

\* The construction failed on a directory with the admin username and without
\* the admin password; nothing was called and the client has no credentials.
C12_Witness ==
    /\ pc = "failed"
    /\ AdminUsernameFile \in DOMAIN dir
    /\ dir[AdminUsernameFile] = <<"admin">>
    /\ AdminPasswordFile \notin DOMAIN dir
    /\ calls = <<>>
    /\ client.Username = EmptyStr

(* C13: a change notification is taken while the admin password or the      *)
(* admin username on disk is empty after trimming: the pass fails at load,  *)
(* the completion signal is sent and HandleEvents returns; no remote call   *)
(* is issued in that pass and the Last-Applied State is left as it was.     *)

AdminEmptyOnDisk ==
    \E f \in {AdminUsernameFile, AdminPasswordFile} :
        /\ f \in DOMAIN dir
        /\ dir[f] \in {<<>>, <<"\t">>, <<" ", "\n">>}

\* HandleEvents takes the notification of a secret file.
TakesNotification ==
    /\ pc = "select"
    /\ events # <<>>
    /\ Head(events)[1] = "user_"
    /\ events' = Tail(events)

C13_LoadErrorIsFatal ==
    [][ (TakesNotification /\ AdminEmptyOnDisk) =>
            /\ Done' = 1
            /\ pc' = "returned"
            /\ calls' = <<>>
            /\ rmq' = rmq
            /\ CredentialState' = CredentialState
      ]_vars

\* HandleEvents returned on a blank admin password file, having called nothing,
\* with the Last-Applied admin entry still the one of the start.
C13_Witness ==
    /\ pc = "returned"
    /\ Done = 1
    /\ dir[AdminPasswordFile] = <<" ", "\n">>
    /\ calls = <<>>
    /\ userID = NoID
    /\ CredentialState[adminUserID] =
          [Username |-> <<"admin">>, Password |-> <<"pwd1">>, Tag |-> <<"administrator">>]

(* C14: loadSecrets fails whenever no file of the admin account is in the   *)
(* directory, as it does on an incomplete admin entry: after a successful   *)
(* load there is an admin entry with a non-empty username and password.     *)

C14_AdminAlwaysLoaded ==
    pc = "select" =>
        /\ adminUserID \in DOMAIN CredentialState
        /\ CredentialState[adminUserID].Username # EmptyStr
        /\ CredentialState[adminUserID].Password # EmptyStr

(* C15: updateAdminFile changes only the username and password keys of the  *)
(* default section: every other key of every section is there with the      *)
(* same value after the write and no key is added besides those two; a      *)
(* missing file, which loads as the empty file, is written as a file of     *)
(* just those two keys.                                                     *)

Saved ==
    /\ pc = "save"
    /\ pc' = "saved"
    /\ calls'[Len(calls')].op = "updateAdminFile"
    /\ calls'[Len(calls')].res = Nil

C15_AdminFileFrame ==
    [][ /\ Saved =>
            /\ \A k \in DOMAIN adminFile \ ManagedKeys :
                   k \in DOMAIN adminFile' /\ adminFile'[k] = adminFile[k]
            /\ DOMAIN adminFile' = DOMAIN adminFile \cup ManagedKeys
            /\ adminFile'[<<"default", "username">>] = CredentialSpec[adminUserID].Username
            /\ adminFile'[<<"default", "password">>] = CredentialSpec[adminUserID].Password
        /\ (Saved /\ DOMAIN adminFile = {}) => DOMAIN adminFile' = ManagedKeys
      ]_vars

\* A file with a host name in the default section and a password in another
\* section was saved with the new admin password, and kept both.
C15_Witness ==
    /\ pc = "saved"
    /\ calls # <<>>
    /\ calls[Len(calls)].res = Nil
    /\ DOMAIN adminFile = AdminFileKeys
    /\ adminFile[<<"default", "password">>] = <<"pwd2">>
    /\ adminFile[<<"default", "username">>] = <<"admin">>
    /\ adminFile[<<"default", "hostname">>] = <<"pwd1">>
    /\ adminFile[<<"host_normal", "password">>] = <<"pwd1">>

(* C16: the completion signal is sent at most once; it is sent when the      *)
(* events stream is found closed and when a pass fails at load, and          *)
(* HandleEvents has returned exactly when it was sent; after it is sent no   *)
(* notification is consumed, and no pass, remote call or file write occurs.  *)

C16_DoneInvariant ==
    /\ Done \in {0, 1}
    /\ Done = 1 <=> pc = "returned"

C16_DoneOnce ==
    [][ /\ C16_DoneInvariant'
        /\ (TakesNotification /\ AdminEmptyOnDisk) => Done' = 1
        /\ (pc = "select" /\ closed /\ events' = events /\ pc' # pc) => Done' = 1
        /\ Done = 1 =>
               /\ Done' = 1
               /\ pc' = pc
               /\ Len(events') >= Len(events)
               /\ watchErrors' >= watchErrors
               /\ calls' = calls
               /\ client' = client
               /\ CredentialState' = CredentialState
               /\ CredentialSpec' = CredentialSpec
               /\ adminFile' = adminFile
      ]_vars

\* The Watcher was closed and the signal sent once, with a notification and an
\* error still queued; a file was written after that.
C16_Witness ==
    /\ Done = 1
    /\ pc = "returned"
    /\ closed
    /\ events # <<>>
    /\ isSecretFile(Head(events))
    /\ watchErrors > 0
    /\ writes = 2

(* C17: the completion signal is sent only because of an incomplete admin   *)
(* entry at load or a closed notification stream: it is never sent in the   *)
(* range loop, where the remote calls are made.                             *)

C17_DoneOnlyOnLoadOrWatch ==
    [][ Done' # Done =>
            /\ pc = "select"
            /\ calls' \in {calls, <<>>}
            /\ \/ TakesNotification /\ AdminEmptyOnDisk
               \/ closed
      ]_vars

(* C18: whenever an error is received from the error stream of the Watcher, *)
(* or a stream is found closed, HandleEvents sends the completion signal    *)
(* and stops.                                                               *)

C18_WatchErrorIsFatal ==
    [][ ( /\ pc = "select"
          /\ \/ watchErrors' < watchErrors
             \/ closed /\ events' = events /\ pc' # pc )
        =>
        /\ Done' = Done + 1
        /\ pc' = "returned"
      ]_vars

(* C19: whenever an iteration writes a new credential for an account into   *)
(* the Last-Applied State, a PutUser for the account carrying exactly that  *)
(* credential returned success in the iteration, or the remote service      *)
(* holds the desired password and tag of the account; a PutUser rejected    *)
(* with 401 never leads to a commit while the service holds the old         *)
(* credential.                                                              *)

\* Call c is a PutUser of account id that succeeded and carried credential cred.
IsGoodPut(c, id, cred) ==
    /\ IsPutFor(c, id)
    /\ c.res = Nil
    /\ c.settings.Name = cred.Username
    /\ c.settings.Password = cred.Password
    /\ c.settings.Tags = <<cred.Tag>>

\* The service r holds the password and the tag of credential cred.
RemoteHolds(r, cred) ==
    /\ cred.Username \in DOMAIN r
    /\ r[cred.Username].Password = cred.Password
    /\ r[cred.Username].Tags = <<cred.Tag>>

C19_CommitAfterApply ==
    [][ \A id \in DOMAIN CredentialSpec :
            ( /\ RangeStepOn(id)
              /\ Lookup(CredentialState', id) # Lookup(CredentialState, id) )
            =>
            \/ \E i \in 1..Len(NewCalls) : IsGoodPut(NewCalls[i], id, CredentialState'[id])
            \/ RemoteHolds(rmq', CredentialState'[id])
      ]_vars

(* C20: the Last-Applied admin entry is changed only after the admin file   *)
(* was synced to the new credential or found in sync: in no reachable state *)
(* does the Last-Applied admin entry hold a credential the admin file does  *)
(* not hold.                                                                *)

C20_CommitAfterSync ==
    adminUserID \in DOMAIN CredentialState =>
        FileMatches(adminFile, CredentialState[adminUserID])

----------------------------------------------------------------------------
(* C21: under a stream of notifications that never ends, and with failures  *)
(* that cease, the admin file holds the username and password of the        *)
(* Last-Applied admin entry again and again as long as HandleEvents runs: a *)
(* write that failed is made up for by a later pass.                        *)

MirrorInSync ==
    /\ adminUserID \in DOMAIN CredentialState
    /\ FileMatches(adminFile, CredentialState[adminUserID])

C21_MirrorLiveness == []<>(pc = "returned" \/ MirrorInSync)

----------------------------------------------------------------------------
(* C22: an iteration over an account issues calls if and only if the        *)
(* account has no Last-Applied entry or its desired password or tag differs *)
(* from that entry; otherwise - also when the username alone differs - it   *)
(* issues no call and leaves Last-Applied State, with the old username, and *)
(* the remote service as they are.                                          *)

C22_DiffRule ==
    [][ \A id \in DOMAIN CredentialSpec :
            RangeStepOn(id) =>
                /\ (NewCalls # <<>>) <=> Dirty(id)
                /\ ~Dirty(id) => /\ CredentialState' = CredentialState
                                 /\ rmq' = rmq
                                 /\ client' = client ]_vars

\* The username of account "default" alone was changed and the pass is over.
C22_Witness ==
    /\ pc = "select"
    /\ userID = "default"
    /\ writes = 1
    /\ events = <<>>
    /\ "default" \in DOMAIN CredentialState
    /\ CredentialSpec["default"].Username = <<"other">>
    /\ CredentialState["default"].Username = <<"default">>
    /\ CredentialState["default"].Password = CredentialSpec["default"].Password
    /\ calls = <<>>

----------------------------------------------------------------------------
(* C23: in an iteration UpdatePermissionsIn is called for an account if and *)
(* only if GetUser for it returned 404 and the PutUser that followed        *)
(* succeeded; it is then called once, right after that PutUser, for virtual *)
(* host "/" with configure, write and read ".*", and the PutUser carried    *)
(* the default hashing algorithm; for an account GetUser found there is no  *)
(* permission call.                                                         *)

IsGrant(c) == c.op = "UpdatePermissionsIn"

\* Call i of cs is a GetUser that ended in 404 and call i+1 a PutUser for the
\* same account that succeeded.
CreatedAt(cs, i) ==
    /\ i >= 1
    /\ i + 1 <= Len(cs)
    /\ cs[i].op = "GetUser" /\ cs[i].res = errNotFound
    /\ cs[i + 1].op = "PutUser" /\ cs[i + 1].res = Nil
    /\ cs[i + 1].name = cs[i].name

C23_AccountCreation ==
    [][ \A id \in DOMAIN CredentialSpec :
            RangeStepOn(id) =>
                /\ \A i \in 1..Len(NewCalls) :
                       IsGrant(NewCalls[i]) =>
                           /\ CreatedAt(NewCalls, i - 2)
                           /\ NewCalls[i].name = NewCalls[i - 1].name
                           /\ NewCalls[i].settings.vhost = "/"
                           /\ NewCalls[i].settings.permissions =
                                  [Configure |-> ".*", Write |-> ".*", Read |-> ".*"]
                           /\ NewCalls[i - 1].settings.HashingAlgorithm =
                                  "rabbit_password_hashing_sha256"
                           /\ \A j \in 1..Len(NewCalls) : IsGrant(NewCalls[j]) => j = i
                /\ \A i \in 1..Len(NewCalls) :
                       CreatedAt(NewCalls, i) =>
                           /\ i + 2 <= Len(NewCalls)
                           /\ IsGrant(NewCalls[i + 2])
                /\ \A i \in 1..Len(NewCalls) :
                       (NewCalls[i].op = "GetUser" /\ NewCalls[i].res = Nil) =>
                           \A j \in 1..Len(NewCalls) : ~IsGrant(NewCalls[j]) ]_vars

\* An account was created and granted its permissions, and the pass is over.
C23_Witness ==
    /\ pc = "select"
    /\ \E i \in 1..Len(calls) :
           /\ CreatedAt(calls, i)
           /\ i + 2 <= Len(calls)
           /\ IsGrant(calls[i + 2])
           /\ calls[i + 2].res = Nil
           /\ calls[i].name \in DOMAIN rmq

----------------------------------------------------------------------------
(* C24: every PutUser for an account the remote service holds carries the   *)
(* hashing algorithm the service holds for it, also when GetUser was        *)
(* rejected with 401 and the client went on with the new password; the      *)
(* default algorithm is sent only for an account the service does not hold. *)

C24_AlgorithmPreserved ==
    [][ \A id \in DOMAIN CredentialSpec :
            RangeStepOn(id) =>
                \A i \in 1..Len(NewCalls) :
                    NewCalls[i].op = "PutUser" =>
                        NewCalls[i].settings.HashingAlgorithm =
                            IF NewCalls[i].name \in DOMAIN rmq
                            THEN rmq[NewCalls[i].name].HashingAlgorithm
                            ELSE "rabbit_password_hashing_sha256" ]_vars

----------------------------------------------------------------------------
(* C25: when the admin credential was committed in an iteration, a failure  *)
(* to load or save the admin file and a failure of the final identity check *)
(* leave the Last-Applied admin entry at the new credential, send nothing   *)
(* on Done and let the pass go on with the keys not yet visited.            *)

\* A file operation or the final identity check of the step failed.
SyncFailed ==
    \/ \E i \in 1..Len(NewCalls) : IsFileOp(NewCalls[i]) /\ NewCalls[i].res # Nil
    \/ /\ AdminSynced
       /\ NewCalls[Len(NewCalls)].op = "Whoami"
       /\ NewCalls[Len(NewCalls)].res # Nil

C25_SyncFailureNotFatal ==
    [][ (RangeStepOn(adminUserID) /\ AdminSynced /\ SyncFailed) =>
            /\ CredentialState'[adminUserID] = CredentialSpec[adminUserID]
            /\ Done' = Done
            /\ pc' # "returned"
            /\ todo' = todo \ {adminUserID}
            /\ pc' = "range" <=> todo' # {} ]_vars

\* The save of the admin file failed after the admin apply, and account
\* "default" was applied later in the same pass.
C25_Witness ==
    /\ pc = "select"
    /\ Done = 0
    /\ \E i, j \in 1..Len(calls) :
           /\ i < j
           /\ calls[i].op = "updateAdminFile" /\ calls[i].res # Nil
           /\ calls[j].op = "PutUser" /\ calls[j].acct = "default" /\ calls[j].res = Nil
    /\ CredentialState[adminUserID].Password = <<"pwd2">>
    /\ FileValue(adminFile, "password") = <<"pwd1">>

----------------------------------------------------------------------------
(* C26: an iteration over an account other than admin whose loaded record   *)
(* lacks the username or the password is not skipped as unchanged: it       *)
(* issues calls, also when the same incomplete record was seeded at         *)
(* startup.                                                                 *)

Incomplete(cred) == cred.Username = EmptyStr \/ cred.Password = EmptyStr

C26_IncompleteNeverUnchanged ==
    [][ \A id \in DOMAIN CredentialSpec \ {adminUserID} :
            (RangeStepOn(id) /\ Incomplete(CredentialSpec[id])) =>
                NewCalls # <<>> ]_vars

----------------------------------------------------------------------------
(* C27: a load, at construction or at the start of a pass, makes the        *)
(* Desired State a function of the directory alone: its accounts are those  *)
(* with a readable fragment file, each field is the content of its file     *)
(* without leading and trailing white space and empty when the file is      *)
(* absent, empty or unreadable, other files add nothing, nothing of the     *)
(* Desired State before is kept, and an incomplete account other than admin *)
(* does not make the load fail.                                             *)

FragmentSuffixes == {"_username", "_password", "_tag"}

Readable(d, f) == f \in DOMAIN d /\ d[f] # <<"EACCES">>

AccountsOf(d) ==
    {f[2] : f \in {g \in DOMAIN d : /\ g[1] = "user_"
                                     /\ g[3] \in FragmentSuffixes
                                     /\ Readable(d, g)}}

\* t is s without its leading and trailing white space.
IsTrimmed(t, s) ==
    \E i \in 1..Len(s) + 1, j \in 0..Len(s) :
        /\ t = SubSeq(s, i, j)
        /\ \A k \in 1..i - 1 : k <= Len(s) => s[k] \in {" ", "\n", "\t"}
        /\ \A k \in j + 1..Len(s) : s[k] \in {" ", "\n", "\t"}
        /\ i <= j => (s[i] \notin {" ", "\n", "\t"} /\ s[j] \notin {" ", "\n", "\t"})

FieldIs(v, d, id, suffix) ==
    IF Readable(d, <<"user_", id, suffix>>)
    THEN IsTrimmed(v, d[<<"user_", id, suffix>>])
    ELSE v = <<>>

\* NewPasswordUpdater loads the directory, or HandleEvents does for a pass.
Loads == (pc = "new" /\ pc' # "new") \/ TakesNotification

C27_LoadIsFunctionOfDirectory ==
    [][ Loads =>
            /\ pc' \notin {"failed", "returned"}
            /\ DOMAIN CredentialSpec' = AccountsOf(dir)
            /\ \A id \in AccountsOf(dir) :
                   /\ FieldIs(CredentialSpec'[id].Username, dir, id, "_username")
                   /\ FieldIs(CredentialSpec'[id].Password, dir, id, "_password")
                   /\ FieldIs(CredentialSpec'[id].Tag, dir, id, "_tag") ]_vars

\* The password file of account "default" was removed after the seed: the pass
\* loaded an empty password, not the one loaded before.
C27_Witness ==
    /\ pc = "range"
    /\ DefaultPasswordFile \notin DOMAIN dir
    /\ "default" \in DOMAIN CredentialSpec
    /\ CredentialSpec["default"].Password = <<>>
    /\ CredentialSpec["default"].Username = <<"default">>
    /\ "default" \in DOMAIN CredentialState
    /\ CredentialState["default"].Password = <<"pwd1">>

----------------------------------------------------------------------------
(* C28: passes do not overlap.  A notification is taken from the queue only *)
(* when no pass is in progress; while a pass is in progress the Desired     *)
(* State it loaded stays, the keys still to visit only shrink and a         *)
(* notification that arrives waits in the queue; Last-Applied State and the *)
(* client's credentials change only in a step of HandleEvents.              *)

PassInProgress == pc = "range"

C28_PassesNeverOverlap ==
    [][ /\ Len(events') < Len(events) => (pc = "select" /\ todo = {})
        /\ PassInProgress =>
               /\ CredentialSpec' = CredentialSpec
               /\ todo' \subseteq todo
               /\ \E n \in 0..1 : SubSeq(events', 1, Len(events') - n) = events
        /\ (~PassInProgress /\ pc' = "range") => TakesNotification
        /\ (CredentialState' # CredentialState \/ client' # client) =>
               (PassInProgress \/ TakesNotification) ]_vars

\* A file was written while a pass is in progress: its notification waits and
\* the pass goes on with what it loaded.
C28_Witness ==
    /\ PassInProgress
    /\ events # <<>>
    /\ todo # {}
    /\ ~loadSecrets(dir).err
    /\ loadSecrets(dir).creds # CredentialSpec

----------------------------------------------------------------------------
(* C29: when the process has exited, on a signal or on the completion       *)
(* signal, no pass is in flight: no key of a pass that was started is left  *)
(* unvisited.                                                               *)

C29_NoMidPassExit == pc = "exited" => todo = {}

----------------------------------------------------------------------------
(* C30: two replicas seeded with the same credentials observe the same      *)
(* admin password change.  When the peer has applied it, before or during   *)
(* the iteration of this replica over admin, this replica changes nothing   *)
(* on the service, sends nothing on Done, and ends the iteration with its   *)
(* Last-Applied admin entry and its admin file at the new credential.       *)

\* A PutUser of the sequence was accepted by the service.
AcceptedPuts(cs) == SelectSeq(cs, LAMBDA c : c.op = "PutUser" /\ c.res = Nil)

C30_ReplicasConverge ==
    [][ ( /\ AdminKnown
          /\ RangeStepOn(adminUserID)
          /\ OldAdmin = SeedAdmin
          /\ NewAdmin.Username = SeedAdmin.Username
          /\ NewAdmin.Password # SeedAdmin.Password
          /\ rotations' = 1
          /\ AuthOK(NewAdmin, rmq')
          /\ NoFault(NewCalls) )
        =>
        /\ AcceptedPuts(NewCalls) = <<>>
        /\ Done' = Done
        /\ pc' # "returned"
        /\ CredentialState'[adminUserID] = CredentialSpec[adminUserID]
        /\ FileMatches(adminFile', CredentialSpec[adminUserID])
      ]_vars

----------------------------------------------------------------------------
(* C31: of the two client instances only the one held in adminClient is     *)
(* used.  Every remote call is made on it; after a GetUser or PutUser that  *)
(* was rejected with 401 the identity check that follows is made on it with *)
(* the desired admin password; the credentials of the instance held in      *)
(* authClient never change.                                                 *)

IsRemoteCall(c) == c.op \in {"Whoami", "GetUser", "PutUser", "UpdatePermissionsIn"}

\* Call i of cs is a GetUser or PutUser that was rejected with 401.
RejectedAt(cs, i) ==
    /\ cs[i].op \in {"GetUser", "PutUser"}
    /\ cs[i].res = "Error: API responded with a 401 Unauthorized"

----------------------------------------------------------------------------
(* C32: the acting client holds the username and password of the            *)
(* Last-Applied admin entry when a pass starts, when an iteration issues    *)
(* its first call and right after every commit.  Its username is always     *)
(* that of the entry, and its password is that of the entry or the desired  *)
(* admin password, which only the 401 fallback sets.                        *)

\* The credentials of the admin entry of Last-Applied State s.
AdminEntry(s) ==
    [Username |-> s[adminUserID].Username, Password |-> s[adminUserID].Password]

C32_ClientFollowsLastApplied ==
    [][ /\ TakesNotification => client' = AdminEntry(CredentialState)
        /\ \A id \in DOMAIN CredentialSpec :
               RangeStepOn(id) =>
                   /\ NewCalls # <<>> => NewCalls[1].by = AdminEntry(CredentialState)
                   /\ CredentialState' # CredentialState =>
                          client' = AdminEntry(CredentialState')
                   /\ client' # client =>
                          \/ client' = AdminEntry(CredentialState')
                          \/ /\ \E i \in 1..Len(NewCalls) : RejectedAt(NewCalls, i)
                             /\ client'.Username = CredentialState'[adminUserID].Username
                             /\ client'.Password = CredentialSpec[adminUserID].Password
        /\ client'.Username = CredentialState'[adminUserID].Username
        /\ \/ client'.Password = CredentialState'[adminUserID].Password
           \/ /\ adminUserID \in DOMAIN CredentialSpec'
              /\ client'.Password = CredentialSpec'[adminUserID].Password ]_vars

\* The fallback left the desired admin password on the client and the pass is
\* over: the next pass has to set the Last-Applied one again.
C32_Witness ==
    /\ pc = "select"
    /\ calls # <<>>
    /\ adminUserID \in DOMAIN CredentialSpec
    /\ client.Password = CredentialSpec[adminUserID].Password
    /\ client.Password # CredentialState[adminUserID].Password
    /\ events # <<>>
    /\ Head(events)[1] = "user_"

----------------------------------------------------------------------------
(* C33: as long as HandleEvents runs, every account of the service holds    *)
(* permissions on "/" again and again: an account the engine created whose  *)
(* UpdatePermissionsIn failed is granted them by a later pass.              *)

AllGranted == DOMAIN rmq \subseteq granted

C33_CreatedGetsPermissions == []<>(pc = "returned" \/ AllGranted)

----------------------------------------------------------------------------
(* C34: no GetUser and no PutUser is issued for the empty username, and no  *)
(* PutUser carries an empty password.                                       *)

C34_NoEmptyCredentialSent ==
    \A i \in 1..Len(calls) :
        /\ calls[i].op \in {"GetUser", "PutUser"} => calls[i].name # <<>>
        /\ calls[i].op = "PutUser" => calls[i].settings.Password # <<>>

====
